---- MODULE Spec2Model ----
(***************************************************************************)
(* Model of libquickjs-sys/build.rs: the cargo build script that obtains   *)
(* the QuickJS library (system-installed or bundled sources), optionally   *)
(* patches the bundled sources, compiles them and generates the bindings.  *)
(*                                                                         *)
(* One behaviour is a sequence of cargo builds on one machine: each build  *)
(* picks the enabled features, the target platform and the content of      *)
(* embed/patches, and then runs the `main` that the cfg attributes select. *)
(* OUT_DIR/quickjs (code_dir) is the only state kept from build to build.  *)
(***************************************************************************)
EXTENDS Naturals, Sequences, FiniteSets

\* ------------------------------------------------------------------ bounds
\* patch files of embed/patches are 1..MaxPatches; patch i stands for the
\* file "000i.patch", so the lexicographic order of the names is the
\* numeric order of the indices
MaxPatches == 2
\* largest number of macros the parsed header defines
MaxMacros == 2

\* --------------------------------------------------------------- constants
LIB_NAME == "quickjs"
STATIC_UNIT == "static-functions.c"

Features == [system : BOOLEAN, bundled : BOOLEAN, patched : BOOLEAN, bindgen : BOOLEAN]
\* cfg!(unix) holds on "unix", target_env = "msvc" holds on "msvc"
Platforms == {"unix", "msvc", "windows-gnu"}

Patches == 1..MaxPatches

\* embed/quickjs: the five compiled units and the header
VendorUnits == {"cutils.c", "libbf.c", "libregexp.c", "libunicode.c", "quickjs.c"}
EmbedFiles == VendorUnits \cup {"quickjs.h"}

\* the two places the system main looks at
UsrLibFile == "/usr/lib/quickjs/quickjs.a"
UsrLibDir == "/usr/lib/quickjs"
UsrLocalFile == "/usr/local/lib/quickjs/quickjs.a"
UsrLocalDir == "/usr/local/lib/quickjs"
CandidateDirs == <<UsrLibDir, UsrLocalDir>>

\* filesystem states: a library file exists only inside an existing directory
FsPaths == {UsrLibDir, UsrLibFile, UsrLocalDir, UsrLocalFile}
FsStates == {s \in SUBSET FsPaths : /\ (UsrLibFile \in s => UsrLibDir \in s)
                                    /\ (UsrLocalFile \in s => UsrLocalDir \in s)}

\* raw value of QUICKJS_LIBRARY_PATH in the process environment
NotPresent == "<not present>"
NotUnicode == "<not unicode>"
OverridePaths == {"/opt/quickjs", UsrLocalDir}
EnvValues == {NotPresent, NotUnicode} \cup OverridePaths
Unread == "<unread>"

IgnoredMacroNames == {"FP_INFINITE", "FP_NAN", "FP_NORMAL", "FP_SUBNORMAL", "FP_ZERO"}
MacroNames == IgnoredMacroNames \cup {"FP_ILOGB0", "JS_TAG_INT"}
Headers == {h \in SUBSET MacroNames : Cardinality(h) <= MaxMacros}

NoError == [kind |-> "none", mentions |-> {}]
NoDir == [exists |-> FALSE, files |-> {}, applied |-> <<>>, rejects |-> {}]
NoLib == "<none>"
NoBindings == [generated |-> FALSE, header |-> {}, callbacks |-> <<>>, macros |-> {}]

VARIABLES
    features,    \* cfg(feature = ...) of this build
    platform,    \* target of this build
    patchDir,    \* files of embed/patches in this build
    pc,          \* position of the build
    mainFn,      \* the main function that was entered
    err,         \* the panic that ended the build
    compiled,    \* cc::Build::compile calls so far, in order
    envVar,      \* value env::var("QUICKJS_LIBRARY_PATH") saw
    fs,          \* filesystem the locator looked at
    probed,      \* paths handed to exists(), in order
    lib,         \* the `lib` local of the system main
    code_dir,    \* OUT_DIR/quickjs
    removed,     \* what remove_dir_all(&code_dir) deleted in this build
    entries,     \* what fs::read_dir(patches_path) yielded, in order
    patchCalls,  \* `patch` processes run so far, with their exit status
    bindgenCalls,\* calls of bindgen::Builder::generate
    bindings,    \* the generated bindings
    written,     \* bindings.rs was written by this build
    directives   \* cargo: lines printed by the script

vars == <<features, platform, patchDir, pc, mainFn, err, compiled, envVar, fs,
          probed, lib, code_dir, removed, entries, patchCalls, bindgenCalls, bindings,
          written, directives>>

\* ---------------------------------------------------------------- helpers
Range(s) == {s[i] : i \in 1..Len(s)}

\* all enumeration orders of a set of directory entries
Enumerations(S) == {s \in [1..Cardinality(S) -> S] : Range(s) = S}

Panic(kind, mentions) == [kind |-> kind, mentions |-> mentions]

\* --------------------------------------------------- configuration (cfg)
\* the `main` definitions the cfg attributes leave in the crate
MainDefs(f, p) ==
    (IF ~f.system /\ ~f.bundled THEN {"main_unconfigured"} ELSE {})
    \cup (IF f.system THEN {"main_system"} ELSE {})
    \cup (IF f.bundled /\ p # "msvc" THEN {"main_bundled"} ELSE {})
    \cup (IF f.bundled /\ p = "msvc" THEN {"main_bundled_msvc"} ELSE {})

\* panic of the main compiled when neither `system` nor `bundled` is enabled
UnconfiguredPanic == Panic("ConfigurationError", {"bundled", "system"})

\* variant of SystemChecks without the cfg(feature = "patched") panic
SystemChecksNoPatched(f) ==
    IF ~f.bindgen THEN Panic("ConfigurationError", {"bundled", "bindgen"})
    ELSE NoError

\* the two cfg-guarded panics that open the system main
SystemChecks(f) ==
    IF ~f.bindgen THEN Panic("ConfigurationError", {"bundled", "bindgen"})
    ELSE IF f.patched THEN Panic("ConfigurationError", {"patched", "system"})
    ELSE NoError

\* variant of PatchesApplied with the call removed from both mains
PatchesAppliedNever(f, p) == FALSE

\* whether the bundled main calls apply_patches: the call is compiled in
\* under cfg(feature = "patched") in the non-msvc main and is commented out
\* in the msvc main
PatchesApplied(f, p) == f.patched /\ p # "msvc"

\* ------------------------------------------------------ library locator
\* env::var: Ok(value) for a present unicode value, Err otherwise
EnvVarOk(v) == v \notin {NotPresent, NotUnicode}

LibraryNotFoundPanic == Panic("LibraryNotFoundError", {"QUICKJS_LIBRARY_PATH"})
WindowsPanic == Panic("UnsupportedPlatform", {"Windows"})

Located(dir, looked) == [lib |-> dir, probed |-> looked, err |-> NoError]
NotLocated(panic, looked) == [lib |-> NoLib, probed |-> looked, err |-> panic]

\* variant of Locate that looks at /usr/lib/quickjs before the override
LocateProbesFirst(v, p, files) ==
    IF p = "unix" /\ UsrLibFile \in files THEN Located(UsrLibDir, <<UsrLibFile>>)
    ELSE IF EnvVarOk(v) THEN Located(v, <<UsrLibFile>>)
    ELSE NotLocated(LibraryNotFoundPanic, <<UsrLibFile>>)

\* variant of Locate that takes /usr/local/lib/quickjs without looking
LocateFallsBack(v, p, files) ==
    IF EnvVarOk(v) THEN Located(v, <<>>)
    ELSE IF p = "unix" THEN
        IF UsrLibFile \in files THEN Located(UsrLibDir, <<UsrLibFile>>)
        ELSE Located(UsrLocalDir, <<UsrLibFile, UsrLocalDir>>)
    ELSE NotLocated(WindowsPanic, <<>>)

\* the expression that initialises `lib`
Locate(v, p, files) ==
    IF EnvVarOk(v) THEN Located(v, <<>>)
    ELSE IF p = "unix" THEN
        IF UsrLibFile \in files THEN Located(UsrLibDir, <<UsrLibFile>>)
        ELSE IF UsrLocalDir \in files THEN Located(UsrLocalDir, <<UsrLibFile, UsrLocalDir>>)
        ELSE NotLocated(LibraryNotFoundPanic, <<UsrLibFile, UsrLocalDir>>)
    ELSE NotLocated(WindowsPanic, <<>>)

\* -------------------------------------------------------- source stager
\* if exists(&code_dir) { remove_dir_all(&code_dir) }
Cleared(cd) == IF cd.exists THEN NoDir ELSE cd

\* copy_dir::copy_dir into a destination that does not exist
Copied(cd) == [exists |-> TRUE, files |-> cd.files \cup EmbedFiles,
               applied |-> cd.applied, rejects |-> cd.rejects]

\* variant of Staged that copies over a directory left by an earlier build
StagedOverStale(cd) == Copied(cd)

\* code_dir after the stale directory is removed and embed/quickjs is copied
Staged(cd) == Copied(Cleared(cd))

\* --------------------------------------------------------- patch applier
\* "Patch command returned non-zero exit code": the message names no file
PatchPanic == Panic("PatchApplicationError", {})

\* variant of AfterPatch without the assert on the exit status
AfterPatchIgnoringStatus(status, i, n) ==
    [pc |-> IF i = n THEN "b_compile" ELSE "b_patch", err |-> NoError]

\* assert!(status.success()) and the loop of apply_patches: i of n entries done
AfterPatch(status, i, n) ==
    IF status = "ok"
    THEN [pc |-> IF i = n THEN "b_compile" ELSE "b_patch", err |-> NoError]
    ELSE [pc |-> "aborted", err |-> PatchPanic]

\* effect of one run of the patch tool on the directory it runs in
Patched(cd, patch, status) ==
    IF status = "ok"
    THEN [cd EXCEPT !.applied = Append(@, patch)]
    ELSE [cd EXCEPT !.rejects = @ \cup {patch}]

\* ------------------------------------------------------ binding generator
\* variant of will_parse_macro that never looks the name up
will_parse_macro_ignores_nothing(ignored, name) == "Default"

\* IgnoreMacros::will_parse_macro, self.0 = ignored
will_parse_macro(ignored, name) ==
    IF name \in ignored THEN "Ignore" ELSE "Default"

\* parse_callbacks: only the non-msvc bundled main registers IgnoreMacros
HasIgnoreMacros(fn) == fn = "main_bundled"

\* bindgen's result for a header: the callback is asked once for each macro
\* of the header, and a macro gets a declaration unless the answer is Ignore
Generated(fn, header) ==
    LET asked == IF HasIgnoreMacros(fn)
                 THEN [m \in header |-> will_parse_macro(IgnoredMacroNames, m)]
                 ELSE <<>>
    IN [generated |-> TRUE, header |-> header, callbacks |-> asked,
        macros |-> {m \in header : HasIgnoreMacros(fn) => asked[m] = "Default"}]

\* ---------------------------------------------------------------- actions
Bundled == mainFn \in {"main_bundled", "main_bundled_msvc"}

Init ==
    /\ features = [system |-> FALSE, bundled |-> FALSE, patched |-> FALSE, bindgen |-> FALSE]
    /\ platform = "unix"
    /\ patchDir = {}
    /\ pc = "idle"
    /\ mainFn = "none"
    /\ err = NoError
    /\ compiled = <<>>
    /\ envVar = Unread
    /\ fs = {}
    /\ probed = <<>>
    /\ lib = NoLib
    /\ code_dir = NoDir
    /\ removed = NoDir
    /\ entries = <<>>
    /\ patchCalls = <<>>
    /\ bindgenCalls = 0
    /\ bindings = NoBindings
    /\ written = FALSE
    /\ directives = <<>>

Abort(panic) == pc' = "aborted" /\ err' = panic

\* cargo compiles build.rs for a feature set and a target and runs it; two
\* definitions of `main` (E0428) stop the build before the script runs
CargoBuild ==
    /\ pc = "idle"
    /\ \E f \in Features, p \in Platforms, dir \in SUBSET Patches :
        /\ features' = f
        /\ platform' = p
        /\ patchDir' = dir
        /\ IF Cardinality(MainDefs(f, p)) = 1
           THEN /\ pc' = "main"
                /\ mainFn' = CHOOSE m \in MainDefs(f, p) : TRUE
                /\ err' = NoError
           ELSE /\ pc' = "rejected"
                /\ mainFn' = "none"
                /\ err' = Panic("DuplicateMain", MainDefs(f, p))
    /\ UNCHANGED <<compiled, envVar, fs, probed, lib, code_dir, removed, entries, patchCalls,
                   bindgenCalls, bindings, written, directives>>

\* the build is over: of its state only OUT_DIR/quickjs is left for the next one
Exit ==
    /\ pc \in {"done", "aborted", "rejected"}
    /\ features' = [system |-> FALSE, bundled |-> FALSE, patched |-> FALSE, bindgen |-> FALSE]
    /\ platform' = "unix"
    /\ patchDir' = {}
    /\ pc' = "idle"
    /\ mainFn' = "none"
    /\ err' = NoError
    /\ compiled' = <<>>
    /\ envVar' = Unread
    /\ fs' = {}
    /\ probed' = <<>>
    /\ lib' = NoLib
    /\ entries' = <<>>
    /\ patchCalls' = <<>>
    /\ bindgenCalls' = 0
    /\ bindings' = NoBindings
    /\ written' = FALSE
    /\ directives' = <<>>
    /\ removed' = NoDir
    /\ UNCHANGED code_dir

\* main under cfg(all(not(system), not(bundled)))
MainUnconfigured ==
    /\ pc = "main" /\ mainFn = "main_unconfigured"
    /\ Abort(UnconfiguredPanic)
    /\ UNCHANGED <<features, platform, patchDir, mainFn, compiled, envVar, fs, probed,
                   lib, code_dir, removed, entries, patchCalls, bindgenCalls, bindings,
                   written, directives>>

\* first statements of the system main
SystemCheck ==
    /\ pc = "main" /\ mainFn = "main_system"
    /\ IF SystemChecks(features) = NoError
       THEN pc' = "statics" /\ err' = err
       ELSE Abort(SystemChecks(features))
    /\ UNCHANGED <<features, platform, patchDir, mainFn, compiled, envVar, fs, probed,
                   lib, code_dir, removed, entries, patchCalls, bindgenCalls, bindings,
                   written, directives>>

\* "compile statics": the first cc::Build of each of the three pipelines
CompileStatics ==
    /\ \/ pc = "statics"
       \/ pc = "main" /\ Bundled
    /\ compiled' = Append(compiled, STATIC_UNIT)
    /\ \E ok \in BOOLEAN :
        IF ok
        THEN pc' = (IF Bundled THEN "stage" ELSE "locate") /\ err' = err
        ELSE Abort(Panic("CompileError", {STATIC_UNIT}))
    /\ UNCHANGED <<features, platform, patchDir, mainFn, envVar, fs, probed,
                   lib, code_dir, removed, entries, patchCalls, bindgenCalls, bindings,
                   written, directives>>

\* let lib = ...: reads the environment and looks at the filesystem
SysLocate ==
    /\ pc = "locate"
    /\ \E v \in EnvValues, files \in FsStates :
        LET r == Locate(v, platform, files) IN
        /\ envVar' = v
        /\ fs' = files
        /\ probed' = r.probed
        /\ lib' = r.lib
        /\ IF r.err = NoError
           THEN pc' = "generate" /\ err' = err
           ELSE Abort(r.err)
    /\ UNCHANGED <<features, platform, patchDir, mainFn, compiled, code_dir, removed,
                   entries, patchCalls, bindgenCalls, bindings, written, directives>>

\* code_dir is removed if it exists and embed/quickjs is copied to it
Stage ==
    /\ pc = "stage"
    /\ \E outcome \in {"ok", "remove failed", "copy failed"} :
        CASE outcome = "ok" ->
                /\ code_dir' = Staged(code_dir)
                /\ removed' = code_dir
                /\ pc' = (IF PatchesApplied(features, platform) THEN "b_readdir" ELSE "b_compile")
                /\ err' = err
          [] outcome = "remove failed" ->
                /\ code_dir.exists
                /\ code_dir' = code_dir
                /\ removed' = removed
                /\ Abort(Panic("WorkspaceError", {"remove_dir_all"}))
          [] outcome = "copy failed" ->
                /\ code_dir' = Cleared(code_dir)
                /\ removed' = code_dir
                /\ Abort(Panic("WorkspaceError", {"copy_dir"}))
    /\ UNCHANGED <<features, platform, patchDir, mainFn, compiled, envVar, fs, probed,
                   lib, entries, patchCalls, bindgenCalls, bindings, written, directives>>

\* apply_patches: fs::read_dir(patches_path), in the order the OS gives
ReadDir ==
    /\ pc = "b_readdir"
    /\ \/ \E e \in Enumerations(patchDir) :
            /\ entries' = e
            /\ pc' = (IF e = <<>> THEN "b_compile" ELSE "b_patch")
            /\ err' = err
       \/ /\ entries' = entries
          /\ Abort(Panic("PatchIoError", {"patches"}))
    /\ UNCHANGED <<features, platform, patchDir, mainFn, compiled, envVar, fs, probed,
                   lib, code_dir, removed, patchCalls, bindgenCalls, bindings, written, directives>>

\* apply_patches: one iteration of the loop over the directory entries
ApplyPatch ==
    /\ pc = "b_patch"
    /\ LET i == Len(patchCalls) + 1 IN
       \E status \in {"ok", "nonzero", "io error"} :
        IF status = "io error"
        THEN /\ Abort(Panic("PatchIoError", {"patch"}))
             /\ UNCHANGED <<patchCalls, code_dir, removed>>
        ELSE /\ patchCalls' = Append(patchCalls, [patch |-> entries[i], status |-> status])
             /\ code_dir' = Patched(code_dir, entries[i], status)
             /\ removed' = removed
             /\ pc' = AfterPatch(status, i, Len(entries)).pc
             /\ err' = AfterPatch(status, i, Len(entries)).err
    /\ UNCHANGED <<features, platform, patchDir, mainFn, compiled, envVar, fs, probed,
                   lib, entries, bindgenCalls, bindings, written, directives>>

\* "Compiling quickjs...": the five vendored units into LIB_NAME
CompileVendor ==
    /\ pc = "b_compile"
    /\ compiled' = Append(compiled, LIB_NAME)
    /\ \E ok \in BOOLEAN :
        IF ok
        THEN pc' = "generate" /\ err' = err
        ELSE Abort(Panic("CompileError", {LIB_NAME}))
    /\ UNCHANGED <<features, platform, patchDir, mainFn, envVar, fs, probed,
                   lib, code_dir, removed, entries, patchCalls, bindgenCalls, bindings,
                   written, directives>>

\* bindgen::Builder ... .generate(); the bundled mains print rerun-if-changed first
Generate ==
    /\ pc = "generate"
    /\ directives' = (IF Bundled THEN Append(directives, <<"rerun-if-changed", "wrapper.h">>)
                      ELSE directives)
    /\ bindgenCalls' = bindgenCalls + 1
    /\ \/ \E header \in Headers :
            /\ bindings' = Generated(mainFn, header)
            /\ pc' = "write" /\ err' = err
       \/ /\ bindings' = bindings
          /\ Abort(Panic("BindingGenerationError", {"generate"}))
    /\ UNCHANGED <<features, platform, patchDir, mainFn, compiled, envVar, fs, probed,
                   lib, code_dir, removed, entries, patchCalls, written>>

\* bindings.write_to_file(out_path.join("bindings.rs"))
WriteBindings ==
    /\ pc = "write"
    /\ \E ok \in BOOLEAN :
        IF ok
        THEN /\ written' = TRUE
             /\ pc' = (IF Bundled THEN "done" ELSE "emit")
             /\ err' = err
        ELSE /\ written' = written
             /\ Abort(Panic("BindingGenerationError", {"write_to_file"}))
    /\ UNCHANGED <<features, platform, patchDir, mainFn, compiled, envVar, fs, probed,
                   lib, code_dir, removed, entries, patchCalls, bindgenCalls, bindings, directives>>

\* "Instruct cargo to statically link quickjs."
EmitLink ==
    /\ pc = "emit"
    /\ directives' = directives \o <<<<"rustc-link-search", lib>>, <<"rustc-link-lib", LIB_NAME>>>>
    /\ pc' = "done"
    /\ UNCHANGED <<features, platform, patchDir, mainFn, err, compiled, envVar, fs, probed,
                   lib, code_dir, removed, entries, patchCalls, bindgenCalls, bindings, written>>

Next ==
    \/ CargoBuild
    \/ MainUnconfigured
    \/ SystemCheck
    \/ CompileStatics
    \/ SysLocate
    \/ Stage
    \/ ReadDir
    \/ ApplyPatch
    \/ CompileVendor
    \/ Generate
    \/ WriteBindings
    \/ EmitLink
    \/ Exit

Spec == Init /\ [][Next]_vars

\* ------------------------------------------------------------- properties
RECURSIVE SortedSeq(_)
\* the elements of a set of patch files in lexicographic order of their names
SortedSeq(S) ==
    IF S = {} THEN <<>>
    ELSE LET least == CHOOSE x \in S : \A y \in S : x <= y
         IN <<least>> \o SortedSeq(S \ {least})

IsPrefix(s, t) == Len(s) <= Len(t) /\ \A i \in 1..Len(s) : s[i] = t[i]

\* the patches handed to the patch tool so far, in order
Invoked == [i \in 1..Len(patchCalls) |-> patchCalls[i].patch]
\* the patches the patch tool applied with exit status 0
AppliedOk == {patchCalls[i].patch : i \in {j \in 1..Len(patchCalls) : patchCalls[j].status = "ok"}}
PatchFailed == \E i \in 1..Len(patchCalls) : patchCalls[i].status = "nonzero"
VendorCompiled == LIB_NAME \in Range(compiled)

InvalidFeatures(f) ==
    \/ f.system /\ f.bundled
    \/ ~f.system /\ ~f.bundled
    \/ f.patched /\ ~f.bundled
    \/ f.system /\ ~f.bindgen

ModeOf(f) ==
    IF f.system THEN "SystemLinked"
    ELSE IF f.patched THEN "BundledPatched" ELSE "BundledUnpatched"

PipelineOf(mode, p) ==
    IF mode = "SystemLinked" THEN "main_system"
    ELSE IF p = "msvc" THEN "main_bundled_msvc" ELSE "main_bundled"

ConfigFailed ==
    \/ pc = "rejected"
    \/ pc = "aborted" /\ err.kind = "ConfigurationError"

NoSideEffect ==
    /\ compiled = <<>> /\ probed = <<>> /\ patchCalls = <<>>
    /\ bindgenCalls = 0 /\ ~written /\ directives = <<>>

NoCandidatePresent == \A i \in 1..Len(CandidateDirs) : CandidateDirs[i] \notin fs

SystemNothingInstalled ==
    /\ mainFn = "main_system" /\ platform = "unix"
    /\ envVar = NotPresent /\ NoCandidatePresent

\* C2 as stated: in system mode with the override unset and no candidate
\* location present the build aborts with the library-not-found error and
\* no compile step and no binding generation has run.
C2_NoCompileAtAll ==
    SystemNothingInstalled =>
        /\ pc = "aborted" /\ err.kind = "LibraryNotFoundError"
        /\ compiled = <<>>
        /\ bindgenCalls = 0

\* C2 amended: in system mode on unix with the override unset and no
\* candidate location present the build aborts with the library-not-found
\* error; the auxiliary unit static-functions.c has been compiled by then,
\* and nothing else: no binding generation, no bindings file, no directive.
C2_OnlyStaticsCompiled ==
    SystemNothingInstalled =>
        /\ pc = "aborted" /\ err.kind = "LibraryNotFoundError"
        /\ compiled = <<STATIC_UNIT>>
        /\ bindgenCalls = 0 /\ ~written /\ directives = <<>>

C2_Witness == SystemNothingInstalled /\ pc = "aborted" /\ probed # <<>>

\* C3 as stated: once the patch tool has exited non-zero the build is
\* aborted at that patch, no later patch is invoked and no compilation step
\* and no binding generation is invoked in that run.
C3_NoCompileAtAll ==
    PatchFailed =>
        /\ pc = "aborted" /\ err.kind = "PatchApplicationError"
        /\ patchCalls[Len(patchCalls)].status = "nonzero"
        /\ compiled = <<>>
        /\ bindgenCalls = 0

\* C3 amended: once the patch tool has exited non-zero the build is aborted
\* at that patch, no later patch is invoked, the vendored units are never
\* compiled and no bindings are generated; the only compilation of the run
\* is that of static-functions.c, which precedes the staging.
C3_AbortAtFailingPatch ==
    PatchFailed =>
        /\ pc = "aborted" /\ err.kind = "PatchApplicationError"
        /\ patchCalls[Len(patchCalls)].status = "nonzero"
        /\ \A i \in 1..(Len(patchCalls) - 1) : patchCalls[i].status = "ok"
        /\ compiled = <<STATIC_UNIT>>
        /\ bindgenCalls = 0 /\ ~written

C3_Witness ==
    /\ PatchFailed /\ Len(patchCalls) = 1 /\ Len(entries) > 1
    /\ features.bundled /\ features.patched

\* C4: the patches are handed to the patch tool in lexicographic order of
\* their file names, whatever order the directory is enumerated in.
C4_LexicographicOrder == IsPrefix(Invoked, SortedSeq(patchDir))

\* C5 as stated: when the vendored units are compiled in bundled mode the
\* workspace holds exactly the vendored files with exactly the enabled
\* patches (all of embed/patches when patched is on) applied, nothing else.
C5_EnabledPatchesOnly ==
    (Bundled /\ (pc = "b_compile" \/ VendorCompiled)) =>
        /\ code_dir.exists
        /\ code_dir.files = EmbedFiles /\ code_dir.rejects = {}
        /\ Range(code_dir.applied) = (IF features.patched THEN patchDir ELSE {})
        /\ Len(code_dir.applied) = Cardinality(Range(code_dir.applied))

\* C5 amended: when the vendored units are compiled in bundled mode the
\* workspace holds exactly the vendored files with exactly the patches this
\* build applied (each file of embed/patches once, in the order of the
\* directory enumeration, when patched is on and the target is not msvc; none
\* otherwise) and nothing left by an earlier build: it depends on this build
\* alone, so building twice leaves what building once leaves.
C5_FreshWorkspace ==
    (Bundled /\ (pc = "b_compile" \/ VendorCompiled)) =>
        /\ code_dir.exists
        /\ code_dir.files = EmbedFiles /\ code_dir.rejects = {}
        /\ code_dir.applied = (IF features.patched /\ platform # "msvc" THEN entries ELSE <<>>)
        /\ features.patched /\ platform # "msvc" =>
              /\ Range(entries) = patchDir
              /\ Len(entries) = Cardinality(patchDir)

C5_Witness ==
    /\ Bundled /\ VendorCompiled /\ features.patched /\ platform = "unix"
    /\ removed.applied = <<2>> /\ removed.rejects = {1}
    /\ patchDir = {1} /\ code_dir.applied = <<1>>

\* C6 as stated: in bundled+patched mode on every platform every patch of
\* the patch directory has been applied when the vendored units are compiled.
C6_PatchedOnEveryPlatform ==
    (Bundled /\ features.patched /\ VendorCompiled) => patchDir \subseteq AppliedOk

\* C6 amended: in bundled+patched mode on a target other than msvc every
\* patch of the patch directory has been applied when the vendored units
\* are compiled (the msvc main never applies patches).
C6_PatchedUnlessMsvc ==
    (Bundled /\ features.patched /\ platform # "msvc" /\ (pc = "b_compile" \/ VendorCompiled)) =>
        /\ patchDir \subseteq AppliedOk
        /\ Range(code_dir.applied) = patchDir

C6_Witness ==
    /\ mainFn = "main_bundled" /\ features.patched /\ VendorCompiled
    /\ patchDir = Patches /\ pc = "done"

LibFileIn(dir) == IF dir = UsrLibDir THEN UsrLibFile ELSE UsrLocalFile

\* C8: with no override the locator returns the first candidate directory,
\* in the order /usr/lib/quickjs, /usr/local/lib/quickjs, whose library file
\* exists, and never a directory whose library file is absent.
C8_FirstWithLibraryFile ==
    (mainFn = "main_system" /\ envVar = NotPresent /\ lib # NoLib) =>
        /\ LibFileIn(lib) \in fs
        /\ \E i \in 1..Len(CandidateDirs) :
              /\ CandidateDirs[i] = lib
              /\ \A j \in 1..(i - 1) : LibFileIn(CandidateDirs[j]) \notin fs

\* C9: with no override and no candidate holding the archive file the
\* locator fails and its message contains every probed location.
C9_MessageNamesProbed ==
    (/\ mainFn = "main_system" /\ platform = "unix" /\ envVar = NotPresent
     /\ UsrLibFile \notin fs /\ UsrLocalFile \notin fs) =>
        /\ pc = "aborted" /\ err.kind = "LibraryNotFoundError"
        /\ Range(probed) \subseteq err.mentions

\* C10: in the non-msvc bundled build the macro callback is asked once for
\* each macro of the header and answers Ignore exactly for FP_INFINITE,
\* FP_NAN, FP_NORMAL, FP_SUBNORMAL and FP_ZERO; the generated bindings hold
\* a declaration for exactly the other macros of the header.
C10_IgnoreListFilter ==
    (mainFn = "main_bundled" /\ bindings.generated) =>
        /\ DOMAIN bindings.callbacks = bindings.header
        /\ \A m \in bindings.header :
              /\ bindings.callbacks[m] \in {"Ignore", "Default"}
              /\ bindings.callbacks[m] = "Ignore" <=>
                    m \in {"FP_INFINITE", "FP_NAN", "FP_NORMAL", "FP_SUBNORMAL", "FP_ZERO"}
              /\ m \in bindings.macros <=> bindings.callbacks[m] = "Default"
        /\ bindings.macros \subseteq bindings.header

C10_Witness ==
    /\ mainFn = "main_bundled" /\ bindings.generated
    /\ bindings.header = {"FP_NAN", "JS_TAG_INT"} /\ bindings.macros = {"JS_TAG_INT"}
====
